---- MODULE Spec2Model ----
(***************************************************************************)
(* Model of ShipmentWorkflow (workflows/shipment.py): the run coroutine,   *)
(* the signal handlers and the queries of one shipment.                    *)
(*                                                                         *)
(* The workflow is cooperative: the code between two awaits is one atomic  *)
(* step.  Awaiting an activity always yields; awaiting an asyncio.Event    *)
(* that is already set does not yield.  A signal starts a new handler      *)
(* coroutine, which runs up to its first await in the step that delivers   *)
(* it.  When run returns the workflow execution is closed: no signal is    *)
(* delivered afterwards and unfinished handlers are dropped.               *)
(*                                                                         *)
(* Costs are dollars; hours are kept in hundredths (Hours(24) = 2400) so   *)
(* that the -0.08 h of "Retry payment" is the integer -8.                  *)
(***************************************************************************)
EXTENDS Integers, Sequences, FiniteSets, TLC

\* bound of the model: the signals sent to one workflow execution
MaxSignals == 2

\* bound of the model: the queries answered in a row
MaxProbes == 2

\* the payment loop's attempt limit (while self._payment_retries < 3)
MaxPaymentAttempts == 3

Hours(h) == h * 100

\* routes/shipments.py create_shipment: the scenario selects the simulate_* flags
ScenarioIds ==
    {"none", "price-mismatch", "payment-failure", "warehouse-stock",
     "transport-delay", "customs-issue", "delivery-delay"}

\* int(workflow.random().random() * 43) + 5 ranges over 5..47
BackupCapacities == {5, 47}

ShipmentState ==
    {"ORDER_RECEIVED", "PAYMENT_RECEIVED", "WAREHOUSE_ALLOCATION", "PACKAGED",
     "TRANSPORT_STARTED", "CUSTOMS_CLEARANCE", "LOCAL_DELIVERY", "DELIVERED",
     "CANCELED", "CRITICAL_HALT"}

PaymentStatus == {"PENDING", "SUCCESS", "FAILED", "WAITING_FOR_RESOLUTION"}

\* PaymentErrorReason: NETWORK_ERROR stands for the five reasons the run
\* treats alike (every reason but INSUFFICIENT_FUNDS)
PaymentErrorReason == {"NETWORK_ERROR", "INSUFFICIENT_FUNDS"}

HumanOperatorChoice ==
    {"SEND_TO_TECH_SUPPORT", "RETRY_PAYMENT", "RESUME_WHEN_READY", "CANCEL_ORDER",
     "ACCEPT_NEW_PRICE", "UPDATE_ORDER", "ADJUST_QUANTITY",
     "ALLOCATE_DIFFERENT", "WAIT_FOR_STOCK",
     "NOTICE_CUSTOMERS_REFUND", "WAIT_OUT_WEATHER", "REROUTE_SHIPMENT",
     "PROVIDE_DOCUMENTATION", "PAY_EXPEDITED_FEE", "ACCEPT_DELAY", "RETURN_SHIPMENT",
     "SCHEDULE_NEW_TIME", "LEAVE_SAFE_LOCATION", "RETURN_TO_DEPOT",
     "DO_NOTHING", "INFORM_CUSTOMERS", "REARRANGE_LOGISTICS"}

VARIABLES
    scenario,          \* the input: which simulate_* flag is set
    state,             \* self._state
    payment_retries,   \* self._payment_retries
    payment_status,    \* self._payment_status
    payment_error,     \* self._payment_error (its reason, or "None")
    delivery_update,   \* self._delivery_update
    current_error,     \* self._current_error
    summary,           \* self._summary
    events,            \* the asyncio.Events that are set (never cleared)
    pause_requested,   \* self._pause_requested
    workflow_paused,   \* self._workflow_paused.is_set()
    runpc,             \* where the run coroutine is
    backup_capacity,   \* run's local backup_capacity
    retry_count,       \* the retry_count argument of the verify_payment in flight
    checks,            \* verify_payment executions started since the last RETRY_PAYMENT
    handlers,          \* the signal-handler coroutines in flight
    signals,           \* the number of signals delivered so far
    cancel_at,         \* history: where run was when cancel_shipment was accepted
    window_decisions,  \* history: the categories decided, with a choice of
                       \* theirs, after their check failed
    rejected,          \* the last signal raised ApplicationError
    probes,            \* the queries answered since the last step of the workflow
    answer             \* the last of them and its result

record == <<state, payment_retries, payment_status, payment_error, delivery_update,
            current_error, summary>>
vars == <<scenario, state, payment_retries, payment_status, payment_error,
          delivery_update, current_error, summary, events, pause_requested,
          workflow_paused, runpc, backup_capacity, retry_count, checks, handlers,
          signals, cancel_at, window_decisions, rejected, probes, answer>>

----
\* models

\* no query has been answered since the workflow last moved
NoAnswer == [query |-> "None", result |-> "None"]

NoProbe == probes' = 0 /\ answer' = NoAnswer

NoError ==
    [reason |-> "None", backup_warehouse_capacity_hours |-> 0,
     resolution_options |-> <<>>]

\* the resolution_options each ErrorDetails is built with
resolution_options(reason) ==
    CASE reason = "PRICE_MISMATCH" ->
             <<"Accept new price", "Update order with available items",
               "Adjust quantity", "Cancel order">>
      [] reason \in {"NETWORK_ERROR", "INSUFFICIENT_FUNDS"} ->
             <<"Send to tech support", "Retry payment",
               "Resume when system is ready", "Cancel order">>
      [] reason = "INSUFFICIENT_STOCK" ->
             <<"Allocate from different warehouse",
               "Cancel order and reorder from another supplier",
               "Wait for stock to be replenished">>
      [] reason = "WEATHER_DELAY" ->
             <<"Notice customers and offer refunds",
               "Do nothing and wait out bad weather (pause workflow)",
               "Reroute shipment from unaffected supplier (high cost)">>
      [] reason = "DOCUMENTATION_MISSING" ->
             <<"Provide additional documentation", "Pay expedited processing fee",
               "Accept delay",
               "Reroute from another supplier (more expensive, but faster)">>
      [] reason = "RECIPIENT_UNAVAILABLE" ->
             <<"Schedule new delivery time", "Leave at safe location",
               "Return to depot for pickup", "Cancel delivery">>
      [] OTHER -> <<>>

ErrorDetails(reason, capacity) ==
    [reason |-> reason, backup_warehouse_capacity_hours |-> capacity,
     resolution_options |-> resolution_options(reason)]

NoDeliveryUpdate == [status |-> "None", delay_reason |-> "None", new_eta |-> "None"]

WorkflowSummary ==
    [total_cost |-> 0,
     time_saved_hours |-> 0,
     production_line_stopped |-> FALSE,
     production_stop_duration_hours |-> 0,
     production_loss_cost |-> 0,
     decisions_made |-> <<>>,
     avoided_production_stop |-> FALSE,
     final_status |-> "COMPLETED"]

\* the simulate_* flags of the input
simulate_validation_failure == scenario = "price-mismatch"
simulate_payment_failure == scenario = "payment-failure"
simulate_stock_issue == scenario = "warehouse-stock"
simulate_transport_delay == scenario = "transport-delay"
simulate_customs_issue == scenario = "customs-issue"
simulate_delivery_delay == scenario = "delivery-delay"

----
\* activities, as the results they can return

validate_order == ~simulate_validation_failure

\* the (status, reason) pairs verify_payment can return for a retry count
verify_payment(attempt) ==
    IF ~simulate_payment_failure
    THEN {<<"SUCCESS", "None">>}
    ELSE {<<"FAILED", r>> : r \in PaymentErrorReason}
         \cup (IF attempt = 0 THEN {} ELSE {<<"SUCCESS", "None">>})

check_warehouse_allocation == ~simulate_stock_issue
check_transport_status == ~simulate_transport_delay
check_customs_status == ~simulate_customs_issue
check_delivery_status == ~simulate_delivery_delay

\* update_delivery_estimate: DELAYED when the error carries an eta_impact
update_delivery_estimate(error_details) ==
    IF error_details.reason \in {"WEATHER_DELAY", "DOCUMENTATION_MISSING",
                                 "RECIPIENT_UNAVAILABLE"}
    THEN [status |-> "DELAYED", delay_reason |-> error_details.reason, new_eta |-> "set"]
    ELSE [status |-> "ON_TIME", delay_reason |-> "None", new_eta |-> "None"]

\* _track_decision without the addition of the cost
_track_decision_CostDropped(s, decision, cost, time_impact_hours) ==
    [s EXCEPT !.decisions_made = Append(@, decision),
              !.time_saved_hours = @ + time_impact_hours]

\* _track_decision that also marks the production stop as avoided
_track_decision_MarksStop(s, decision, cost, time_impact_hours) ==
    [s EXCEPT !.decisions_made = Append(@, decision),
              !.total_cost = @ + cost,
              !.time_saved_hours = @ + time_impact_hours,
              !.avoided_production_stop = TRUE]

_track_decision(s, decision, cost, time_impact_hours) ==
    [s EXCEPT !.decisions_made = Append(@, decision),
              !.total_cost = @ + cost,
              !.time_saved_hours = @ + time_impact_hours]

----
Init ==
    /\ scenario \in ScenarioIds
    /\ state = "ORDER_RECEIVED"
    /\ payment_retries = 0
    /\ payment_status = "PENDING"
    /\ payment_error = "None"
    /\ delivery_update = NoDeliveryUpdate
    /\ current_error = NoError
    /\ summary = WorkflowSummary
    /\ events = {}
    /\ pause_requested = FALSE
    /\ workflow_paused = FALSE
    /\ runpc = "start"
    /\ backup_capacity = 0
    /\ retry_count = 0
    /\ checks = 0
    /\ handlers = {}
    /\ signals = 0
    /\ cancel_at = "none"
    /\ window_decisions = {}
    /\ rejected = FALSE
    /\ probes = 0
    /\ answer = NoAnswer

----
\* the run coroutine

\* what a run step leaves alone besides the fields it names
RunFrame ==
    /\ UNCHANGED <<scenario, pause_requested, workflow_paused, handlers, signals,
                   cancel_at, window_decisions, rejected>>
    /\ checks' = IF runpc' = "verify_payment" THEN checks + 1 ELSE checks
    /\ NoProbe

\* return ShipmentResponse(...): the workflow execution closes
RunReturn == runpc' = "done"

\* the head of the payment loop, then step 3 when the loop is left
\* the loop left without step 3: run returns with the state as it is
PaymentLoop_Rests ==
    IF /\ payment_retries < MaxPaymentAttempts
       /\ payment_status \notin {"SUCCESS", "WAITING_FOR_RESOLUTION"}
    THEN /\ runpc' = "verify_payment"
         /\ retry_count' = payment_retries
         /\ UNCHANGED state
    ELSE /\ RunReturn
         /\ UNCHANGED <<state, retry_count>>

PaymentLoop ==
    IF /\ payment_retries < MaxPaymentAttempts
       /\ payment_status \notin {"SUCCESS", "WAITING_FOR_RESOLUTION"}
    THEN /\ runpc' = "verify_payment"
         /\ retry_count' = payment_retries
         /\ UNCHANGED state
    ELSE /\ state' = "WAREHOUSE_ALLOCATION"
         /\ runpc' = "update_state_warehouse"
         /\ UNCHANGED retry_count

RunStart ==
    /\ runpc = "start"
    /\ state' = "ORDER_RECEIVED"
    /\ runpc' = "update_state_order"
    /\ UNCHANGED <<payment_retries, payment_status, payment_error, delivery_update,
                   current_error, summary, events, backup_capacity, retry_count>>
    /\ RunFrame

RunOrderStateUpdated ==
    /\ runpc = "update_state_order"
    /\ runpc' = "validate_order"
    /\ UNCHANGED <<state, payment_retries, payment_status, payment_error,
                   delivery_update, current_error, summary, events, backup_capacity,
                   retry_count>>
    /\ RunFrame

RunOrderValidated ==
    /\ runpc = "validate_order"
    /\ IF ~validate_order
       THEN /\ current_error' = ErrorDetails("PRICE_MISMATCH", 0)
            /\ runpc' = "notify_order"
            /\ UNCHANGED <<state, retry_count>>
       ELSE /\ PaymentLoop
            /\ UNCHANGED current_error
    /\ UNCHANGED <<payment_retries, payment_status, payment_error, delivery_update,
                   summary, events, backup_capacity>>
    /\ RunFrame

\* AfterOrderWait without the test for CANCELED
AfterOrderWait_IgnoresCancel == PaymentLoop

\* after await self._order_resolution.wait()
AfterOrderWait ==
    IF state = "CANCELED"
    THEN RunReturn /\ UNCHANGED <<state, retry_count>>
    ELSE PaymentLoop

RunOrderNotified ==
    /\ runpc = "notify_order"
    /\ IF "order" \in events
       THEN AfterOrderWait
       ELSE runpc' = "wait_order" /\ UNCHANGED <<state, retry_count>>
    /\ UNCHANGED <<payment_retries, payment_status, payment_error, delivery_update,
                   current_error, summary, events, backup_capacity>>
    /\ RunFrame

RunOrderResolved ==
    /\ runpc = "wait_order"
    /\ "order" \in events
    /\ AfterOrderWait
    /\ UNCHANGED <<payment_retries, payment_status, payment_error, delivery_update,
                   current_error, summary, events, backup_capacity>>
    /\ RunFrame

\* RunPaymentVerified without the auto-cancel branch
RunPaymentVerified_AlwaysEscalates ==
    /\ runpc = "verify_payment"
    /\ \E res \in verify_payment(retry_count) :
        /\ payment_error' = res[2]
        /\ IF res[1] = "FAILED"
           THEN /\ payment_retries' = payment_retries + 1
                /\ UNCHANGED state
                /\ IF payment_retries + 1 = MaxPaymentAttempts
                   THEN /\ payment_status' = "WAITING_FOR_RESOLUTION"
                        /\ current_error' = ErrorDetails(res[2], 0)
                        /\ runpc' = "notify_payment"
                   ELSE /\ payment_status' = "FAILED"
                        /\ runpc' = "retry_sleep"
                        /\ UNCHANGED current_error
           ELSE /\ payment_status' = res[1]
                /\ state' = "PAYMENT_RECEIVED"
                /\ runpc' = "update_state_payment"
                /\ UNCHANGED <<payment_retries, current_error>>
    /\ UNCHANGED <<delivery_update, summary, events, backup_capacity, retry_count>>
    /\ RunFrame

\* RunPaymentVerified with the status left FAILED when it escalates
RunPaymentVerified_KeepsFailed ==
    /\ runpc = "verify_payment"
    /\ \E res \in verify_payment(retry_count) :
        /\ payment_error' = res[2]
        /\ IF res[1] = "FAILED"
           THEN /\ payment_retries' = payment_retries + 1
                /\ UNCHANGED state
                /\ IF payment_retries + 1 = MaxPaymentAttempts
                   THEN IF res[2] = "INSUFFICIENT_FUNDS"
                        THEN /\ payment_status' = "FAILED"
                             /\ runpc' = "notify_auto_cancel"
                             /\ UNCHANGED current_error
                        ELSE /\ payment_status' = "FAILED"
                             /\ current_error' = ErrorDetails(res[2], 0)
                             /\ runpc' = "notify_payment"
                   ELSE /\ payment_status' = "FAILED"
                        /\ runpc' = "retry_sleep"
                        /\ UNCHANGED current_error
           ELSE /\ payment_status' = res[1]
                /\ state' = "PAYMENT_RECEIVED"
                /\ runpc' = "update_state_payment"
                /\ UNCHANGED <<payment_retries, current_error>>
    /\ UNCHANGED <<delivery_update, summary, events, backup_capacity, retry_count>>
    /\ RunFrame

\* RunPaymentVerified without self._payment_retries += 1
RunPaymentVerified_NoCount ==
    /\ runpc = "verify_payment"
    /\ \E res \in verify_payment(retry_count) :
        /\ payment_error' = res[2]
        /\ IF res[1] = "FAILED"
           THEN /\ payment_retries' = payment_retries
                /\ UNCHANGED state
                /\ IF payment_retries + 1 = MaxPaymentAttempts
                   THEN IF res[2] = "INSUFFICIENT_FUNDS"
                        THEN /\ payment_status' = "FAILED"
                             /\ runpc' = "notify_auto_cancel"
                             /\ UNCHANGED current_error
                        ELSE /\ payment_status' = "WAITING_FOR_RESOLUTION"
                             /\ current_error' = ErrorDetails(res[2], 0)
                             /\ runpc' = "notify_payment"
                   ELSE /\ payment_status' = "FAILED"
                        /\ runpc' = "retry_sleep"
                        /\ UNCHANGED current_error
           ELSE /\ payment_status' = res[1]
                /\ state' = "PAYMENT_RECEIVED"
                /\ runpc' = "update_state_payment"
                /\ UNCHANGED <<payment_retries, current_error>>
    /\ UNCHANGED <<delivery_update, summary, events, backup_capacity, retry_count>>
    /\ RunFrame

RunPaymentVerified ==
    /\ runpc = "verify_payment"
    /\ \E res \in verify_payment(retry_count) :
        /\ payment_error' = res[2]
        /\ IF res[1] = "FAILED"
           THEN /\ payment_retries' = payment_retries + 1
                /\ UNCHANGED state
                /\ IF payment_retries + 1 = MaxPaymentAttempts
                   THEN IF res[2] = "INSUFFICIENT_FUNDS"
                        THEN /\ payment_status' = "FAILED"
                             /\ runpc' = "notify_auto_cancel"
                             /\ UNCHANGED current_error
                        ELSE /\ payment_status' = "WAITING_FOR_RESOLUTION"
                             /\ current_error' = ErrorDetails(res[2], 0)
                             /\ runpc' = "notify_payment"
                   ELSE /\ payment_status' = "FAILED"
                        /\ runpc' = "retry_sleep"
                        /\ UNCHANGED current_error
           ELSE /\ payment_status' = res[1]
                /\ state' = "PAYMENT_RECEIVED"
                /\ runpc' = "update_state_payment"
                /\ UNCHANGED <<payment_retries, current_error>>
    /\ UNCHANGED <<delivery_update, summary, events, backup_capacity, retry_count>>
    /\ RunFrame

RunAutoCancelNotified ==
    /\ runpc = "notify_auto_cancel"
    /\ state' = "CANCELED"
    /\ events' = events \cup {"exit"}
    /\ RunReturn
    /\ UNCHANGED <<payment_retries, payment_status, payment_error, delivery_update,
                   current_error, summary, backup_capacity, retry_count>>
    /\ RunFrame

\* after await self._payment_resolution.wait()
AfterPaymentWait ==
    IF state = "CANCELED"
    THEN RunReturn /\ UNCHANGED <<state, retry_count>>
    ELSE PaymentLoop

RunPaymentNotified ==
    /\ runpc = "notify_payment"
    /\ IF "payment" \in events
       THEN AfterPaymentWait
       ELSE runpc' = "wait_payment" /\ UNCHANGED <<state, retry_count>>
    /\ UNCHANGED <<payment_retries, payment_status, payment_error, delivery_update,
                   current_error, summary, events, backup_capacity>>
    /\ RunFrame

RunPaymentResolved ==
    /\ runpc = "wait_payment"
    /\ "payment" \in events
    /\ AfterPaymentWait
    /\ UNCHANGED <<payment_retries, payment_status, payment_error, delivery_update,
                   current_error, summary, events, backup_capacity>>
    /\ RunFrame

\* asyncio.sleep(2) before the next attempt, or update_shipment_state after success
RunPaymentLoopBack ==
    /\ runpc \in {"retry_sleep", "update_state_payment"}
    /\ PaymentLoop
    /\ UNCHANGED <<payment_retries, payment_status, payment_error, delivery_update,
                   current_error, summary, events, backup_capacity>>
    /\ RunFrame

\* ---- step 3: warehouse allocation

\* the fields of the run that the later stages never touch
PaymentFields == <<payment_retries, payment_status, payment_error, retry_count>>

RunWarehouseStateUpdated ==
    /\ runpc = "update_state_warehouse"
    /\ runpc' = "check_warehouse"
    /\ UNCHANGED <<state, delivery_update, current_error, summary, events,
                   backup_capacity, PaymentFields>>
    /\ RunFrame

\* RunWarehouseChecked with the PACKAGED assignment left out
RunWarehouseChecked_SkipsPackaged ==
    /\ runpc = "check_warehouse"
    /\ IF ~check_warehouse_allocation
       THEN /\ \E c \in BackupCapacities :
                /\ backup_capacity' = c
                /\ current_error' = ErrorDetails("INSUFFICIENT_STOCK", c)
            /\ runpc' = "notify_warehouse"
            /\ UNCHANGED state
       ELSE /\ state' = "TRANSPORT_STARTED"
            /\ runpc' = "update_state_transport"
            /\ UNCHANGED <<current_error, backup_capacity>>
    /\ UNCHANGED <<delivery_update, summary, events, PaymentFields>>
    /\ RunFrame

RunWarehouseChecked ==
    /\ runpc = "check_warehouse"
    /\ IF ~check_warehouse_allocation
       THEN /\ \E c \in BackupCapacities :
                /\ backup_capacity' = c
                /\ current_error' = ErrorDetails("INSUFFICIENT_STOCK", c)
            /\ runpc' = "notify_warehouse"
            /\ UNCHANGED state
       ELSE /\ state' = "PACKAGED"
            /\ runpc' = "update_state_packaged"
            /\ UNCHANGED <<current_error, backup_capacity>>
    /\ UNCHANGED <<delivery_update, summary, events, PaymentFields>>
    /\ RunFrame

\* after the warehouse wait returned without a timeout
AfterWarehouseWait ==
    IF state = "CANCELED"
    THEN RunReturn /\ UNCHANGED state
    ELSE state' = "PACKAGED" /\ runpc' = "update_state_packaged"

RunWarehouseNotified ==
    /\ runpc = "notify_warehouse"
    /\ IF "warehouse" \in events
       THEN AfterWarehouseWait
       ELSE runpc' = "wait_warehouse" /\ UNCHANGED state
    /\ UNCHANGED <<delivery_update, current_error, summary, events, backup_capacity,
                   PaymentFields>>
    /\ RunFrame

RunWarehouseResolved ==
    /\ runpc = "wait_warehouse"
    /\ "warehouse" \in events
    /\ AfterWarehouseWait
    /\ UNCHANGED <<delivery_update, current_error, summary, events, backup_capacity,
                   PaymentFields>>
    /\ RunFrame

\* except asyncio.TimeoutError: the deadline passed with the event not set
RunWarehouseTimeout ==
    /\ runpc = "wait_warehouse"
    /\ "warehouse" \notin events
    /\ summary' = [summary EXCEPT
           !.production_line_stopped = TRUE,
           !.production_stop_duration_hours = backup_capacity,
           !.production_loss_cost = backup_capacity * 60 * 100]
    /\ runpc' = "notify_halt_warehouse"
    /\ UNCHANGED <<state, delivery_update, current_error, events, backup_capacity,
                   PaymentFields>>
    /\ RunFrame

\* the end of a timeout branch: CRITICAL_HALT, final_status, return
HaltAndReturn ==
    /\ state' = "CRITICAL_HALT"
    /\ summary' = [summary EXCEPT !.final_status = "CRITICAL_HALT"]
    /\ RunReturn
    /\ UNCHANGED <<delivery_update, current_error, events, backup_capacity,
                   PaymentFields>>
    /\ RunFrame

RunWarehouseHaltNotified ==
    /\ runpc = "notify_halt_warehouse"
    /\ HaltAndReturn

\* ---- step 4: transport

RunPackagedStateUpdated ==
    /\ runpc = "update_state_packaged"
    /\ state' = "TRANSPORT_STARTED"
    /\ runpc' = "update_state_transport"
    /\ UNCHANGED <<delivery_update, current_error, summary, events, backup_capacity,
                   PaymentFields>>
    /\ RunFrame

RunTransportStateUpdated ==
    /\ runpc = "update_state_transport"
    /\ runpc' = "check_transport"
    /\ UNCHANGED <<state, delivery_update, current_error, summary, events,
                   backup_capacity, PaymentFields>>
    /\ RunFrame

RunTransportChecked ==
    /\ runpc = "check_transport"
    /\ IF ~check_transport_status
       THEN /\ current_error' = ErrorDetails("WEATHER_DELAY", 0)
            /\ runpc' = "estimate_transport_delayed"
       ELSE /\ runpc' = "estimate_transport"
            /\ UNCHANGED current_error
    /\ UNCHANGED <<state, delivery_update, summary, events, backup_capacity,
                   PaymentFields>>
    /\ RunFrame

RunTransportDelayEstimated ==
    /\ runpc = "estimate_transport_delayed"
    /\ delivery_update' = update_delivery_estimate(ErrorDetails("WEATHER_DELAY", 0))
    /\ runpc' = "notify_transport"
    /\ UNCHANGED <<state, current_error, summary, events, backup_capacity,
                   PaymentFields>>
    /\ RunFrame

\* after the transport stage: step 5 begins
AfterTransportWait ==
    IF state = "CANCELED"
    THEN RunReturn /\ UNCHANGED state
    ELSE state' = "CUSTOMS_CLEARANCE" /\ runpc' = "update_state_customs"

RunTransportNotified ==
    /\ runpc = "notify_transport"
    /\ IF "transport" \in events
       THEN AfterTransportWait
       ELSE runpc' = "wait_transport" /\ UNCHANGED state
    /\ UNCHANGED <<delivery_update, current_error, summary, events, backup_capacity,
                   PaymentFields>>
    /\ RunFrame

RunTransportResolved ==
    /\ runpc = "wait_transport"
    /\ "transport" \in events
    /\ AfterTransportWait
    /\ UNCHANGED <<delivery_update, current_error, summary, events, backup_capacity,
                   PaymentFields>>
    /\ RunFrame

RunTransportTimeout ==
    /\ runpc = "wait_transport"
    /\ "transport" \notin events
    /\ runpc' = "notify_halt_transport"
    /\ UNCHANGED <<state, delivery_update, current_error, summary, events,
                   backup_capacity, PaymentFields>>
    /\ RunFrame

RunTransportHaltNotified ==
    /\ runpc = "notify_halt_transport"
    /\ HaltAndReturn

RunTransportEstimated ==
    /\ runpc = "estimate_transport"
    /\ delivery_update' = update_delivery_estimate(NoError)
    /\ state' = "CUSTOMS_CLEARANCE"
    /\ runpc' = "update_state_customs"
    /\ UNCHANGED <<current_error, summary, events, backup_capacity, PaymentFields>>
    /\ RunFrame

\* ---- step 5: customs clearance

RunCustomsStateUpdated ==
    /\ runpc = "update_state_customs"
    /\ runpc' = "check_customs"
    /\ UNCHANGED <<state, delivery_update, current_error, summary, events,
                   backup_capacity, PaymentFields>>
    /\ RunFrame

RunCustomsChecked ==
    /\ runpc = "check_customs"
    /\ IF ~check_customs_status
       THEN /\ current_error' = ErrorDetails("DOCUMENTATION_MISSING", 0)
            /\ runpc' = "estimate_customs_delayed"
       ELSE /\ runpc' = "estimate_customs"
            /\ UNCHANGED current_error
    /\ UNCHANGED <<state, delivery_update, summary, events, backup_capacity,
                   PaymentFields>>
    /\ RunFrame

RunCustomsDelayEstimated ==
    /\ runpc = "estimate_customs_delayed"
    /\ delivery_update' =
           update_delivery_estimate(ErrorDetails("DOCUMENTATION_MISSING", 0))
    /\ runpc' = "notify_customs"
    /\ UNCHANGED <<state, current_error, summary, events, backup_capacity,
                   PaymentFields>>
    /\ RunFrame

\* after the customs stage: step 6 begins
AfterCustomsWait ==
    IF state = "CANCELED"
    THEN RunReturn /\ UNCHANGED state
    ELSE state' = "LOCAL_DELIVERY" /\ runpc' = "update_state_delivery"

RunCustomsNotified ==
    /\ runpc = "notify_customs"
    /\ IF "customs" \in events
       THEN AfterCustomsWait
       ELSE runpc' = "wait_customs" /\ UNCHANGED state
    /\ UNCHANGED <<delivery_update, current_error, summary, events, backup_capacity,
                   PaymentFields>>
    /\ RunFrame

RunCustomsResolved ==
    /\ runpc = "wait_customs"
    /\ "customs" \in events
    /\ AfterCustomsWait
    /\ UNCHANGED <<delivery_update, current_error, summary, events, backup_capacity,
                   PaymentFields>>
    /\ RunFrame

RunCustomsTimeout ==
    /\ runpc = "wait_customs"
    /\ "customs" \notin events
    /\ runpc' = "notify_halt_customs"
    /\ UNCHANGED <<state, delivery_update, current_error, summary, events,
                   backup_capacity, PaymentFields>>
    /\ RunFrame

RunCustomsHaltNotified ==
    /\ runpc = "notify_halt_customs"
    /\ HaltAndReturn

RunCustomsEstimated ==
    /\ runpc = "estimate_customs"
    /\ delivery_update' = update_delivery_estimate(NoError)
    /\ state' = "LOCAL_DELIVERY"
    /\ runpc' = "update_state_delivery"
    /\ UNCHANGED <<current_error, summary, events, backup_capacity, PaymentFields>>
    /\ RunFrame

\* ---- step 6: local delivery

RunDeliveryStateUpdated ==
    /\ runpc = "update_state_delivery"
    /\ runpc' = "check_delivery"
    /\ UNCHANGED <<state, delivery_update, current_error, summary, events,
                   backup_capacity, PaymentFields>>
    /\ RunFrame

RunDeliveryChecked ==
    /\ runpc = "check_delivery"
    /\ IF ~check_delivery_status
       THEN /\ current_error' = ErrorDetails("RECIPIENT_UNAVAILABLE", 0)
            /\ runpc' = "estimate_delivery_delayed"
       ELSE /\ runpc' = "estimate_delivery"
            /\ UNCHANGED current_error
    /\ UNCHANGED <<state, delivery_update, summary, events, backup_capacity,
                   PaymentFields>>
    /\ RunFrame

RunDeliveryDelayEstimated ==
    /\ runpc = "estimate_delivery_delayed"
    /\ delivery_update' =
           update_delivery_estimate(ErrorDetails("RECIPIENT_UNAVAILABLE", 0))
    /\ runpc' = "notify_delivery"
    /\ UNCHANGED <<state, current_error, summary, events, backup_capacity,
                   PaymentFields>>
    /\ RunFrame

\* after the delivery stage: step 7
AfterDeliveryWait ==
    IF state = "CANCELED"
    THEN RunReturn /\ UNCHANGED state
    ELSE state' = "DELIVERED" /\ runpc' = "update_state_delivered"

RunDeliveryNotified ==
    /\ runpc = "notify_delivery"
    /\ IF "delivery" \in events
       THEN AfterDeliveryWait
       ELSE runpc' = "wait_delivery" /\ UNCHANGED state
    /\ UNCHANGED <<delivery_update, current_error, summary, events, backup_capacity,
                   PaymentFields>>
    /\ RunFrame

RunDeliveryResolved ==
    /\ runpc = "wait_delivery"
    /\ "delivery" \in events
    /\ AfterDeliveryWait
    /\ UNCHANGED <<delivery_update, current_error, summary, events, backup_capacity,
                   PaymentFields>>
    /\ RunFrame

RunDeliveryEstimated ==
    /\ runpc = "estimate_delivery"
    /\ delivery_update' = update_delivery_estimate(NoError)
    /\ state' = "DELIVERED"
    /\ runpc' = "update_state_delivered"
    /\ UNCHANGED <<current_error, summary, events, backup_capacity, PaymentFields>>
    /\ RunFrame

\* ---- step 7: delivered

RunDeliveredStateUpdated ==
    /\ runpc = "update_state_delivered"
    /\ runpc' = "notify_completed"
    /\ UNCHANGED <<state, delivery_update, current_error, summary, events,
                   backup_capacity, PaymentFields>>
    /\ RunFrame

RunCompletedNotified ==
    /\ runpc = "notify_completed"
    /\ RunReturn
    /\ UNCHANGED <<state, delivery_update, current_error, summary, events,
                   backup_capacity, PaymentFields>>
    /\ RunFrame

\* the steps of run that wait for no signal
RunStep ==
    \/ RunStart
    \/ RunOrderStateUpdated
    \/ RunOrderValidated
    \/ RunOrderNotified
    \/ RunPaymentVerified
    \/ RunAutoCancelNotified
    \/ RunPaymentNotified
    \/ RunPaymentLoopBack
    \/ RunWarehouseStateUpdated
    \/ RunWarehouseChecked
    \/ RunWarehouseNotified
    \/ RunWarehouseTimeout
    \/ RunWarehouseHaltNotified
    \/ RunPackagedStateUpdated
    \/ RunTransportStateUpdated
    \/ RunTransportChecked
    \/ RunTransportDelayEstimated
    \/ RunTransportNotified
    \/ RunTransportTimeout
    \/ RunTransportHaltNotified
    \/ RunTransportEstimated
    \/ RunCustomsStateUpdated
    \/ RunCustomsChecked
    \/ RunCustomsDelayEstimated
    \/ RunCustomsNotified
    \/ RunCustomsTimeout
    \/ RunCustomsHaltNotified
    \/ RunCustomsEstimated
    \/ RunDeliveryStateUpdated
    \/ RunDeliveryChecked
    \/ RunDeliveryDelayEstimated
    \/ RunDeliveryNotified
    \/ RunDeliveryEstimated
    \/ RunDeliveredStateUpdated
    \/ RunCompletedNotified

\* the steps of run that a set event releases
RunResumed ==
    \/ RunOrderResolved
    \/ RunPaymentResolved
    \/ RunWarehouseResolved
    \/ RunTransportResolved
    \/ RunCustomsResolved
    \/ RunDeliveryResolved

----
\* signals: the step that delivers a signal runs its handler up to the first await

\* signals reach the workflow from the moment run has started until it returns
WorkflowOpen == runpc \notin {"start", "done"}

\* every signal: delivered while the workflow is open; run is not touched
SignalFrame ==
    /\ WorkflowOpen
    /\ signals < MaxSignals
    /\ signals' = signals + 1
    /\ UNCHANGED <<scenario, runpc, backup_capacity, retry_count>>
    /\ NoProbe

\* a signal that is no decision and no cancel
CommandFrame == SignalFrame /\ UNCHANGED <<cancel_at, window_decisions, checks>>

\* a handler coroutine suspended at an await; id tells two coroutines of the
\* same handler apart
Handler(name, choice, pc) ==
    [id |-> signals + 1, name |-> name, choice |-> choice, pc |-> pc]

Spawn(name, choice, pc) == handlers' = handlers \cup {Handler(name, choice, pc)}

Move(h, pc) == handlers' = (handlers \ {h}) \cup {[h EXCEPT !.pc = pc]}

Finish(h) == handlers' = handlers \ {h}

\* raise ApplicationError(...) before anything was assigned
Raise ==
    /\ rejected' = TRUE
    /\ UNCHANGED <<record, events, pause_requested, workflow_paused, handlers>>

Track(decision, cost, time_impact_hours) ==
    summary' = _track_decision(summary, decision, cost, time_impact_hours)

\* ---- advance-commands

\* allocate_warehouse without its state check
allocate_warehouse_Unguarded ==
    /\ CommandFrame
    /\ state' = "WAREHOUSE_ALLOCATION"
    /\ Spawn("allocate_warehouse", "-", "check_warehouse")
    /\ rejected' = FALSE
    /\ UNCHANGED <<payment_retries, payment_status, payment_error,
                   delivery_update, current_error, summary, events,
                   pause_requested, workflow_paused>>

allocate_warehouse ==
    /\ CommandFrame
    /\ IF state # "PAYMENT_RECEIVED"
       THEN Raise
       ELSE /\ state' = "WAREHOUSE_ALLOCATION"
            /\ Spawn("allocate_warehouse", "-", "check_warehouse")
            /\ rejected' = FALSE
            /\ UNCHANGED <<payment_retries, payment_status, payment_error,
                           delivery_update, current_error, summary, events,
                           pause_requested, workflow_paused>>

\* what a handler step leaves alone besides the fields it names
HandlerFrame ==
    /\ UNCHANGED <<scenario, runpc, backup_capacity, retry_count, checks, payment_error,
                   pause_requested, workflow_paused, signals, cancel_at,
                   window_decisions, rejected>>
    /\ NoProbe

\* allocate_warehouse after its wait: return if canceled, else PACKAGED
AllocateAfterWait(h) ==
    IF state = "CANCELED"
    THEN Finish(h) /\ UNCHANGED state
    ELSE state' = "PACKAGED" /\ Move(h, "update_state")

AllocateWarehouseChecked(h) ==
    /\ h.name = "allocate_warehouse" /\ h.pc = "check_warehouse"
    /\ IF ~check_warehouse_allocation
       THEN Move(h, "notify") /\ UNCHANGED state
       ELSE state' = "PACKAGED" /\ Move(h, "update_state")
    /\ UNCHANGED <<payment_retries, payment_status, delivery_update, current_error,
                   summary, events>>
    /\ HandlerFrame

AllocateWarehouseNotified(h) ==
    /\ h.name = "allocate_warehouse" /\ h.pc = "notify"
    /\ IF "warehouse" \in events
       THEN AllocateAfterWait(h)
       ELSE Move(h, "wait") /\ UNCHANGED state
    /\ UNCHANGED <<payment_retries, payment_status, delivery_update, current_error,
                   summary, events>>
    /\ HandlerFrame

AllocateWarehouseResolved(h) ==
    /\ h.name = "allocate_warehouse" /\ h.pc = "wait"
    /\ "warehouse" \in events
    /\ AllocateAfterWait(h)
    /\ UNCHANGED <<payment_retries, payment_status, delivery_update, current_error,
                   summary, events>>
    /\ HandlerFrame

\* the stage handlers start_transport, update_customs_status and
\* start_local_delivery share one shape
StageSignal(name, required, entered) ==
    /\ CommandFrame
    /\ IF state # required
       THEN Raise
       ELSE /\ state' = entered
            /\ Spawn(name, "-", "check")
            /\ rejected' = FALSE
            /\ UNCHANGED <<payment_retries, payment_status, payment_error,
                           delivery_update, current_error, summary, events,
                           pause_requested, workflow_paused>>

StageChecked(h, name, ok, reason) ==
    /\ h.name = name /\ h.pc = "check"
    /\ IF ~ok
       THEN /\ current_error' = ErrorDetails(reason, 0)
            /\ Move(h, "estimate_delayed")
       ELSE /\ Move(h, "estimate")
            /\ UNCHANGED current_error
    /\ UNCHANGED <<state, payment_retries, payment_status, delivery_update, summary,
                   events>>
    /\ HandlerFrame

StageDelayEstimated(h, name, reason) ==
    /\ h.name = name /\ h.pc = "estimate_delayed"
    /\ delivery_update' = update_delivery_estimate(ErrorDetails(reason, 0))
    /\ Move(h, "notify")
    /\ UNCHANGED <<state, payment_retries, payment_status, current_error, summary,
                   events>>
    /\ HandlerFrame

\* after the wait: return if canceled, else the closing update_shipment_state
StageAfterWait(h) ==
    IF state = "CANCELED" THEN Finish(h) ELSE Move(h, "update_state")

StageNotified(h, name, ev) ==
    /\ h.name = name /\ h.pc = "notify"
    /\ IF ev \in events THEN StageAfterWait(h) ELSE Move(h, "wait")
    /\ UNCHANGED <<state, payment_retries, payment_status, delivery_update,
                   current_error, summary, events>>
    /\ HandlerFrame

StageResolved(h, name, ev) ==
    /\ h.name = name /\ h.pc = "wait"
    /\ ev \in events
    /\ StageAfterWait(h)
    /\ UNCHANGED <<state, payment_retries, payment_status, delivery_update,
                   current_error, summary, events>>
    /\ HandlerFrame

StageEstimated(h, name) ==
    /\ h.name = name /\ h.pc = "estimate"
    /\ delivery_update' = update_delivery_estimate(NoError)
    /\ Move(h, "update_state")
    /\ UNCHANGED <<state, payment_retries, payment_status, current_error, summary,
                   events>>
    /\ HandlerFrame

\* the closing update_shipment_state of an advance-command handler
AdvanceStateUpdated(h) ==
    /\ h.name \in {"allocate_warehouse", "start_transport", "update_customs_status",
                   "start_local_delivery"}
    /\ h.pc = "update_state"
    /\ Finish(h)
    /\ UNCHANGED <<state, payment_retries, payment_status, delivery_update,
                   current_error, summary, events>>
    /\ HandlerFrame

start_transport == StageSignal("start_transport", "PACKAGED", "TRANSPORT_STARTED")

StartTransportStep(h) ==
    \/ StageChecked(h, "start_transport", check_transport_status, "WEATHER_DELAY")
    \/ StageDelayEstimated(h, "start_transport", "WEATHER_DELAY")
    \/ StageNotified(h, "start_transport", "transport")
    \/ StageResolved(h, "start_transport", "transport")
    \/ StageEstimated(h, "start_transport")

update_customs_status ==
    StageSignal("update_customs_status", "TRANSPORT_STARTED", "CUSTOMS_CLEARANCE")

UpdateCustomsStatusStep(h) ==
    \/ StageChecked(h, "update_customs_status", check_customs_status,
                    "DOCUMENTATION_MISSING")
    \/ StageDelayEstimated(h, "update_customs_status", "DOCUMENTATION_MISSING")
    \/ StageNotified(h, "update_customs_status", "customs")
    \/ StageResolved(h, "update_customs_status", "customs")
    \/ StageEstimated(h, "update_customs_status")

start_local_delivery ==
    StageSignal("start_local_delivery", "CUSTOMS_CLEARANCE", "LOCAL_DELIVERY")

StartLocalDeliveryStep(h) ==
    \/ StageChecked(h, "start_local_delivery", check_delivery_status,
                    "RECIPIENT_UNAVAILABLE")
    \/ StageDelayEstimated(h, "start_local_delivery", "RECIPIENT_UNAVAILABLE")
    \/ StageNotified(h, "start_local_delivery", "delivery")
    \/ StageResolved(h, "start_local_delivery", "delivery")
    \/ StageEstimated(h, "start_local_delivery")

mark_delivered ==
    /\ CommandFrame
    /\ IF state # "LOCAL_DELIVERY"
       THEN Raise
       ELSE /\ state' = "DELIVERED"
            /\ Spawn("mark_delivered", "-", "update_state")
            /\ rejected' = FALSE
            /\ UNCHANGED <<payment_retries, payment_status, payment_error,
                           delivery_update, current_error, summary, events,
                           pause_requested, workflow_paused>>

MarkDeliveredStateUpdated(h) ==
    /\ h.name = "mark_delivered" /\ h.pc = "update_state"
    /\ Move(h, "notify")
    /\ UNCHANGED <<state, payment_retries, payment_status, delivery_update,
                   current_error, summary, events>>
    /\ HandlerFrame

MarkDeliveredNotified(h) ==
    /\ h.name = "mark_delivered" /\ h.pc = "notify"
    /\ events' = events \cup {"exit"}
    /\ Finish(h)
    /\ UNCHANGED <<state, payment_retries, payment_status, delivery_update,
                   current_error, summary>>
    /\ HandlerFrame

\* ---- decisions

\* no branch of the handler matches the choice: it returns without an effect
Ignore == UNCHANGED <<record, events, handlers>>

\* the await of run that a category's event releases
WaitPc(category) ==
    CASE category = "order" -> "wait_order"
      [] category = "payment" -> "wait_payment"
      [] category = "warehouse" -> "wait_warehouse"
      [] category = "transport" -> "wait_transport"
      [] category = "customs" -> "wait_customs"
      [] category = "delivery" -> "wait_delivery"
      [] OTHER -> "none"

\* the positions of run from the failure of a category's check to the await
\* of its decision
WindowPcs(category) ==
    CASE category = "order" -> {"notify_order", "wait_order"}
      [] category = "payment" -> {"notify_payment", "wait_payment"}
      [] category = "warehouse" -> {"notify_warehouse", "wait_warehouse"}
      [] category = "transport" ->
             {"estimate_transport_delayed", "notify_transport", "wait_transport"}
      [] category = "customs" ->
             {"estimate_customs_delayed", "notify_customs", "wait_customs"}
      [] category = "delivery" ->
             {"estimate_delivery_delayed", "notify_delivery", "wait_delivery"}
      [] OTHER -> {}

\* the choices a category's handler names in its branches (for delivery, whose
\* last branch is a bare else, the choices offered with its error)
ChoiceSet(category) ==
    CASE category = "order" ->
             {"ACCEPT_NEW_PRICE", "UPDATE_ORDER", "ADJUST_QUANTITY", "CANCEL_ORDER"}
      [] category = "payment" ->
             {"SEND_TO_TECH_SUPPORT", "RETRY_PAYMENT", "RESUME_WHEN_READY",
              "CANCEL_ORDER"}
      [] category = "warehouse" ->
             {"ALLOCATE_DIFFERENT", "WAIT_FOR_STOCK", "CANCEL_ORDER"}
      [] category = "transport" ->
             {"WAIT_OUT_WEATHER", "REROUTE_SHIPMENT", "NOTICE_CUSTOMERS_REFUND",
              "CANCEL_ORDER"}
      [] category = "customs" ->
             {"PROVIDE_DOCUMENTATION", "PAY_EXPEDITED_FEE", "ACCEPT_DELAY",
              "REROUTE_SHIPMENT"}
      [] category = "delivery" ->
             {"SCHEDULE_NEW_TIME", "LEAVE_SAFE_LOCATION", "RETURN_TO_DEPOT",
              "CANCEL_ORDER"}
      [] OTHER -> {"DO_NOTHING", "INFORM_CUSTOMERS", "REARRANGE_LOGISTICS"}

\* every resolution signal raises nothing
ResolutionSignal(category, choice) ==
    /\ SignalFrame
    /\ rejected' = FALSE
    /\ window_decisions' = IF /\ runpc \in WindowPcs(category)
                              /\ choice \in ChoiceSet(category)
                           THEN window_decisions \cup {category}
                           ELSE window_decisions
    /\ checks' = IF category = "payment" /\ choice = "RETRY_PAYMENT" THEN 0 ELSE checks
    /\ UNCHANGED <<pause_requested, workflow_paused, cancel_at>>

\* the tail of a resume branch: self._current_error = None; <event>.set()
ClearAndRelease(h, ev) ==
    /\ current_error' = NoError
    /\ events' = events \cup {ev}
    /\ Finish(h)

handle_order_resolution(choice) ==
    /\ ResolutionSignal("order", choice)
    /\ IF choice \in {"ACCEPT_NEW_PRICE", "UPDATE_ORDER", "ADJUST_QUANTITY"}
       THEN /\ Spawn("handle_order_resolution", choice, "notify")
            /\ UNCHANGED <<record, events>>
       ELSE IF choice = "CANCEL_ORDER"
       THEN /\ state' = "CANCELED"
            /\ events' = events \cup {"order", "exit"}
            /\ UNCHANGED <<payment_retries, payment_status, payment_error,
                           delivery_update, current_error, summary, handlers>>
       ELSE Ignore

OrderResolutionNotified(h) ==
    /\ h.name = "handle_order_resolution" /\ h.pc = "notify"
    /\ ClearAndRelease(h, "order")
    /\ UNCHANGED <<state, payment_retries, payment_status, delivery_update, summary>>
    /\ HandlerFrame

handle_warehouse_resolution(choice) ==
    /\ ResolutionSignal("warehouse", choice)
    /\ IF choice = "ALLOCATE_DIFFERENT"
       THEN /\ Track("Allocate from different warehouse", 150, Hours(-24))
            /\ Spawn("handle_warehouse_resolution", choice, "notify")
            /\ UNCHANGED <<state, payment_retries, payment_status, payment_error,
                           delivery_update, current_error, events>>
       ELSE IF choice = "WAIT_FOR_STOCK"
       THEN /\ Track("Wait for stock replenishment", 0, Hours(-96))
            /\ Spawn("handle_warehouse_resolution", choice, "notify")
            /\ UNCHANGED <<state, payment_retries, payment_status, payment_error,
                           delivery_update, current_error, events>>
       ELSE IF choice = "CANCEL_ORDER"
       THEN /\ Track("Cancel order", 0, 0)
            /\ state' = "CANCELED"
            /\ current_error' = NoError
            /\ events' = events \cup {"warehouse", "exit"}
            /\ UNCHANGED <<payment_retries, payment_status, payment_error,
                           delivery_update, handlers>>
       ELSE Ignore

\* the resume branch without self._current_error = None
WarehouseResolutionNotified_KeepsError(h) ==
    /\ h.name = "handle_warehouse_resolution" /\ h.pc = "notify"
    /\ events' = events \cup {"warehouse"}
    /\ Finish(h)
    /\ UNCHANGED <<state, payment_retries, payment_status, delivery_update, summary,
                   current_error>>
    /\ HandlerFrame

WarehouseResolutionNotified(h) ==
    /\ h.name = "handle_warehouse_resolution" /\ h.pc = "notify"
    /\ ClearAndRelease(h, "warehouse")
    /\ UNCHANGED <<state, payment_retries, payment_status, delivery_update, summary>>
    /\ HandlerFrame

handle_transport_resolution(choice) ==
    /\ ResolutionSignal("transport", choice)
    /\ IF choice = "WAIT_OUT_WEATHER"
       THEN /\ Track("Wait out bad weather", 0, Hours(-72))
            /\ Spawn("handle_transport_resolution", choice, "notify")
            /\ UNCHANGED <<state, payment_retries, payment_status, payment_error,
                           delivery_update, current_error, events>>
       ELSE IF choice = "REROUTE_SHIPMENT"
       THEN /\ summary' = [_track_decision(summary, "Reroute via alternative supplier",
                                           500, Hours(-24))
                             EXCEPT !.avoided_production_stop = TRUE]
            /\ Spawn("handle_transport_resolution", choice, "notify")
            /\ UNCHANGED <<state, payment_retries, payment_status, payment_error,
                           delivery_update, current_error, events>>
       ELSE IF choice = "NOTICE_CUSTOMERS_REFUND"
       THEN /\ Track("Notice customers with refund option", 0, Hours(-72))
            /\ Spawn("handle_transport_resolution", choice, "notify")
            /\ UNCHANGED <<state, payment_retries, payment_status, payment_error,
                           delivery_update, current_error, events>>
       ELSE IF choice = "CANCEL_ORDER"
       THEN /\ Track("Cancel order", 0, 0)
            /\ state' = "CANCELED"
            /\ events' = events \cup {"transport", "exit"}
            /\ UNCHANGED <<payment_retries, payment_status, payment_error,
                           delivery_update, current_error, handlers>>
       ELSE Ignore

TransportResolutionNotified(h) ==
    /\ h.name = "handle_transport_resolution" /\ h.pc = "notify"
    /\ ClearAndRelease(h, "transport")
    /\ UNCHANGED <<state, payment_retries, payment_status, delivery_update, summary>>
    /\ HandlerFrame

handle_customs_resolution(choice) ==
    /\ ResolutionSignal("customs", choice)
    /\ IF choice = "PROVIDE_DOCUMENTATION"
       THEN /\ Track("Provide additional documentation", 0, Hours(-24))
            /\ Spawn("handle_customs_resolution", choice, "notify")
            /\ UNCHANGED <<state, payment_retries, payment_status, payment_error,
                           delivery_update, current_error, events>>
       ELSE IF choice = "PAY_EXPEDITED_FEE"
       THEN /\ Track("Pay expedited processing fee", 200, Hours(-4))
            /\ Spawn("handle_customs_resolution", choice, "notify")
            /\ UNCHANGED <<state, payment_retries, payment_status, payment_error,
                           delivery_update, current_error, events>>
       ELSE IF choice = "ACCEPT_DELAY"
       THEN /\ Track("Accept customs delay", 0, Hours(-72))
            /\ Spawn("handle_customs_resolution", choice, "notify")
            /\ UNCHANGED <<state, payment_retries, payment_status, payment_error,
                           delivery_update, current_error, events>>
       ELSE IF choice = "REROUTE_SHIPMENT"
       THEN /\ summary' = [_track_decision(summary, "Reroute from alternative supplier",
                                           800, Hours(-12))
                             EXCEPT !.avoided_production_stop = TRUE]
            /\ Spawn("handle_customs_resolution", choice, "notify")
            /\ UNCHANGED <<state, payment_retries, payment_status, payment_error,
                           delivery_update, current_error, events>>
       ELSE Ignore

CustomsResolutionNotified(h) ==
    /\ h.name = "handle_customs_resolution" /\ h.pc = "notify"
    /\ ClearAndRelease(h, "customs")
    /\ UNCHANGED <<state, payment_retries, payment_status, delivery_update, summary>>
    /\ HandlerFrame

\* f"Delivery resolved: {choice.value}"
DeliveryResolvedText(choice) ==
    CASE choice = "SEND_TO_TECH_SUPPORT" -> "Delivery resolved: SEND_TO_TECH_SUPPORT"
      [] choice = "RETRY_PAYMENT" -> "Delivery resolved: RETRY_PAYMENT"
      [] choice = "RESUME_WHEN_READY" -> "Delivery resolved: RESUME_WHEN_READY"
      [] choice = "CANCEL_ORDER" -> "Delivery resolved: CANCEL_ORDER"
      [] choice = "ACCEPT_NEW_PRICE" -> "Delivery resolved: ACCEPT_NEW_PRICE"
      [] choice = "UPDATE_ORDER" -> "Delivery resolved: UPDATE_ORDER"
      [] choice = "ADJUST_QUANTITY" -> "Delivery resolved: ADJUST_QUANTITY"
      [] choice = "ALLOCATE_DIFFERENT" -> "Delivery resolved: ALLOCATE_DIFFERENT"
      [] choice = "WAIT_FOR_STOCK" -> "Delivery resolved: WAIT_FOR_STOCK"
      [] choice = "NOTICE_CUSTOMERS_REFUND" -> "Delivery resolved: NOTICE_CUSTOMERS_REFUND"
      [] choice = "WAIT_OUT_WEATHER" -> "Delivery resolved: WAIT_OUT_WEATHER"
      [] choice = "REROUTE_SHIPMENT" -> "Delivery resolved: REROUTE_SHIPMENT"
      [] choice = "PROVIDE_DOCUMENTATION" -> "Delivery resolved: PROVIDE_DOCUMENTATION"
      [] choice = "PAY_EXPEDITED_FEE" -> "Delivery resolved: PAY_EXPEDITED_FEE"
      [] choice = "ACCEPT_DELAY" -> "Delivery resolved: ACCEPT_DELAY"
      [] choice = "RETURN_SHIPMENT" -> "Delivery resolved: RETURN_SHIPMENT"
      [] choice = "SCHEDULE_NEW_TIME" -> "Delivery resolved: SCHEDULE_NEW_TIME"
      [] choice = "LEAVE_SAFE_LOCATION" -> "Delivery resolved: LEAVE_SAFE_LOCATION"
      [] choice = "RETURN_TO_DEPOT" -> "Delivery resolved: RETURN_TO_DEPOT"
      [] choice = "DO_NOTHING" -> "Delivery resolved: DO_NOTHING"
      [] choice = "INFORM_CUSTOMERS" -> "Delivery resolved: INFORM_CUSTOMERS"
      [] choice = "REARRANGE_LOGISTICS" -> "Delivery resolved: REARRANGE_LOGISTICS"

handle_delivery_resolution(choice) ==
    /\ ResolutionSignal("delivery", choice)
    /\ IF choice = "CANCEL_ORDER"
       THEN /\ Track("Cancel order", 0, 0)
            /\ state' = "CANCELED"
            /\ current_error' = NoError
            /\ events' = events \cup {"delivery", "exit"}
            /\ UNCHANGED <<payment_retries, payment_status, payment_error,
                           delivery_update, handlers>>
       ELSE IF choice = "RETURN_TO_DEPOT"
       THEN /\ Track("Return to depot for pickup", 25, 0)
            /\ Spawn("handle_delivery_resolution", choice, "notify")
            /\ UNCHANGED <<state, payment_retries, payment_status, payment_error,
                           delivery_update, current_error, events>>
       ELSE /\ Track(DeliveryResolvedText(choice), 0, Hours(-24))
            /\ Spawn("handle_delivery_resolution", choice, "notify")
            /\ UNCHANGED <<state, payment_retries, payment_status, payment_error,
                           delivery_update, current_error, events>>

DeliveryResolutionNotified(h) ==
    /\ h.name = "handle_delivery_resolution" /\ h.pc = "notify"
    /\ ClearAndRelease(h, "delivery")
    /\ UNCHANGED <<state, payment_retries, payment_status, delivery_update, summary>>
    /\ HandlerFrame

\* handle_payment_resolution whose RESUME_WHEN_READY branch leaves the state
handle_payment_resolution_ResumeKeepsState(choice) ==
    /\ ResolutionSignal("payment", choice)
    /\ IF choice = "CANCEL_ORDER"
       THEN /\ Track("Cancel order", 0, 0)
            /\ state' = "CANCELED"
            /\ current_error' = NoError
            /\ events' = events \cup {"exit"}
            /\ UNCHANGED <<payment_retries, payment_status, payment_error,
                           delivery_update, handlers>>
       ELSE IF choice = "SEND_TO_TECH_SUPPORT"
       THEN /\ Track("Send to tech support", 50, Hours(-3))
            /\ Spawn("handle_payment_resolution", choice, "notify")
            /\ UNCHANGED <<state, payment_retries, payment_status, payment_error,
                           delivery_update, current_error, events>>
       ELSE IF choice = "RETRY_PAYMENT"
       THEN /\ Track("Retry payment", 0, -8)
            /\ payment_retries' = 0
            /\ payment_status' = "PENDING"
            /\ current_error' = NoError
            /\ events' = events \cup {"payment"}
            /\ UNCHANGED <<state, payment_error, delivery_update, handlers>>
       ELSE IF choice = "RESUME_WHEN_READY"
       THEN /\ Track("Resume when system is ready", 0, 0)
            /\ payment_status' = "SUCCESS"
            /\ current_error' = NoError
            /\ events' = events \cup {"payment"}
            /\ UNCHANGED <<state, payment_retries, payment_error, delivery_update,
                           handlers>>
       ELSE Ignore

handle_payment_resolution(choice) ==
    /\ ResolutionSignal("payment", choice)
    /\ IF choice = "CANCEL_ORDER"
       THEN /\ Track("Cancel order", 0, 0)
            /\ state' = "CANCELED"
            /\ current_error' = NoError
            /\ events' = events \cup {"exit"}
            /\ UNCHANGED <<payment_retries, payment_status, payment_error,
                           delivery_update, handlers>>
       ELSE IF choice = "SEND_TO_TECH_SUPPORT"
       THEN /\ Track("Send to tech support", 50, Hours(-3))
            /\ Spawn("handle_payment_resolution", choice, "notify")
            /\ UNCHANGED <<state, payment_retries, payment_status, payment_error,
                           delivery_update, current_error, events>>
       ELSE IF choice = "RETRY_PAYMENT"
       THEN /\ Track("Retry payment", 0, -8)
            /\ payment_retries' = 0
            /\ payment_status' = "PENDING"
            /\ current_error' = NoError
            /\ events' = events \cup {"payment"}
            /\ UNCHANGED <<state, payment_error, delivery_update, handlers>>
       ELSE IF choice = "RESUME_WHEN_READY"
       THEN /\ Track("Resume when system is ready", 0, 0)
            /\ payment_status' = "SUCCESS"
            /\ state' = "PAYMENT_RECEIVED"
            /\ current_error' = NoError
            /\ events' = events \cup {"payment"}
            /\ UNCHANGED <<payment_retries, payment_error, delivery_update, handlers>>
       ELSE Ignore

PaymentResolutionNotified(h) ==
    /\ h.name = "handle_payment_resolution" /\ h.pc = "notify"
    /\ payment_status' = "SUCCESS"
    /\ state' = "PAYMENT_RECEIVED"
    /\ ClearAndRelease(h, "payment")
    /\ UNCHANGED <<payment_retries, delivery_update, summary>>
    /\ HandlerFrame

handle_delay_resolution(choice) ==
    /\ ResolutionSignal("delay", choice)
    /\ IF choice \in {"DO_NOTHING", "INFORM_CUSTOMERS", "REARRANGE_LOGISTICS"}
       THEN /\ Spawn("handle_delay_resolution", choice, "notify")
            /\ UNCHANGED <<record, events>>
       ELSE /\ current_error' = NoError
            /\ UNCHANGED <<state, payment_retries, payment_status, payment_error,
                           delivery_update, summary, events, handlers>>

DelayResolutionNotified(h) ==
    /\ h.name = "handle_delay_resolution" /\ h.pc = "notify"
    /\ current_error' = NoError
    /\ Finish(h)
    /\ UNCHANGED <<state, payment_retries, payment_status, delivery_update, summary,
                   events>>
    /\ HandlerFrame

\* ---- cancel, pause, resume

cancel_shipment ==
    /\ SignalFrame
    /\ UNCHANGED <<window_decisions, checks>>
    /\ IF state \in {"DELIVERED", "CANCELED"}
       THEN Raise /\ UNCHANGED cancel_at
       ELSE /\ state' = "CANCELED"
            /\ events' = events \cup {"exit"}
            /\ rejected' = FALSE
            /\ cancel_at' = runpc
            /\ UNCHANGED <<payment_retries, payment_status, payment_error,
                           delivery_update, current_error, summary, pause_requested,
                           workflow_paused, handlers>>

\* pause_workflow that flips the flag whatever it is
pause_workflow_Toggles ==
    /\ CommandFrame
    /\ rejected' = FALSE
    /\ pause_requested' = ~pause_requested
    /\ workflow_paused' = pause_requested
    /\ UNCHANGED <<record, events, handlers>>

pause_workflow ==
    /\ CommandFrame
    /\ rejected' = FALSE
    /\ IF ~pause_requested
       THEN pause_requested' = TRUE /\ workflow_paused' = FALSE
       ELSE UNCHANGED <<pause_requested, workflow_paused>>
    /\ UNCHANGED <<record, events, handlers>>

resume_workflow ==
    /\ CommandFrame
    /\ rejected' = FALSE
    /\ IF pause_requested
       THEN pause_requested' = FALSE /\ workflow_paused' = TRUE
       ELSE UNCHANGED <<pause_requested, workflow_paused>>
    /\ UNCHANGED <<record, events, handlers>>

\* ---- queries

get_status == state
get_delivery_update == delivery_update
get_current_error == current_error
get_summary == summary
is_paused == pause_requested

Queries ==
    {"get_status", "get_delivery_update", "get_current_error", "get_summary",
     "is_paused"}

QueryResult(query) ==
    CASE query = "get_status" -> get_status
      [] query = "get_delivery_update" -> get_delivery_update
      [] query = "get_current_error" -> get_current_error
      [] query = "get_summary" -> get_summary
      [] query = "is_paused" -> is_paused

\* Query whose get_current_error hands the error over and clears it
Query_ConsumesError(query) ==
    /\ runpc # "start"
    /\ probes < MaxProbes
    /\ probes' = probes + 1
    /\ answer' = [query |-> query, result |-> QueryResult(query)]
    /\ current_error' = IF query = "get_current_error" THEN NoError ELSE current_error
    /\ UNCHANGED <<scenario, state, payment_retries, payment_status, payment_error,
                   delivery_update, summary, events, pause_requested,
                   workflow_paused, runpc, backup_capacity, retry_count, checks,
                   handlers, signals, cancel_at, window_decisions, rejected>>

\* a query is answered: a read of the fields, whatever run and the handlers
\* are waiting for
Query(query) ==
    /\ runpc # "start"
    /\ probes < MaxProbes
    /\ probes' = probes + 1
    /\ answer' = [query |-> query, result |-> QueryResult(query)]
    /\ UNCHANGED <<record, events, pause_requested, workflow_paused, scenario, runpc,
                   backup_capacity, retry_count, checks, handlers, signals,
                   cancel_at, window_decisions, rejected>>

Probe == \E query \in Queries : Query(query)

----
\* the choices each decision signal is sent with: the ones its handler names
\* and one it does not
Choices(name) ==
    CASE name = "handle_order_resolution" ->
             {"ACCEPT_NEW_PRICE", "UPDATE_ORDER", "ADJUST_QUANTITY", "CANCEL_ORDER",
              "WAIT_FOR_STOCK"}
      [] name = "handle_warehouse_resolution" ->
             {"ALLOCATE_DIFFERENT", "WAIT_FOR_STOCK", "CANCEL_ORDER", "ACCEPT_DELAY"}
      [] name = "handle_transport_resolution" ->
             {"WAIT_OUT_WEATHER", "REROUTE_SHIPMENT", "NOTICE_CUSTOMERS_REFUND",
              "CANCEL_ORDER", "WAIT_FOR_STOCK"}
      [] name = "handle_customs_resolution" ->
             {"PROVIDE_DOCUMENTATION", "PAY_EXPEDITED_FEE", "ACCEPT_DELAY",
              "REROUTE_SHIPMENT", "RETURN_SHIPMENT", "CANCEL_ORDER"}
      [] name = "handle_delivery_resolution" ->
             {"SCHEDULE_NEW_TIME", "LEAVE_SAFE_LOCATION", "RETURN_TO_DEPOT",
              "CANCEL_ORDER", "WAIT_FOR_STOCK"}
      [] name = "handle_payment_resolution" ->
             {"SEND_TO_TECH_SUPPORT", "RETRY_PAYMENT", "RESUME_WHEN_READY",
              "CANCEL_ORDER", "WAIT_FOR_STOCK"}
      [] name = "handle_delay_resolution" ->
             {"DO_NOTHING", "INFORM_CUSTOMERS", "REARRANGE_LOGISTICS", "ACCEPT_DELAY"}

\* a signal arrives
Signal ==
    \/ allocate_warehouse
    \/ start_transport
    \/ update_customs_status
    \/ start_local_delivery
    \/ mark_delivered
    \/ cancel_shipment
    \/ pause_workflow
    \/ resume_workflow
    \/ \E choice \in Choices("handle_order_resolution") :
           handle_order_resolution(choice)
    \/ \E choice \in Choices("handle_warehouse_resolution") :
           handle_warehouse_resolution(choice)
    \/ \E choice \in Choices("handle_transport_resolution") :
           handle_transport_resolution(choice)
    \/ \E choice \in Choices("handle_customs_resolution") :
           handle_customs_resolution(choice)
    \/ \E choice \in Choices("handle_delivery_resolution") :
           handle_delivery_resolution(choice)
    \/ \E choice \in Choices("handle_payment_resolution") :
           handle_payment_resolution(choice)
    \/ \E choice \in Choices("handle_delay_resolution") :
           handle_delay_resolution(choice)

\* an activity awaited by a handler completes, or the event it waits for is set
HandlerStep ==
    /\ WorkflowOpen
    /\ \E h \in handlers :
        \/ AllocateWarehouseChecked(h)
        \/ AllocateWarehouseNotified(h)
        \/ AllocateWarehouseResolved(h)
        \/ StartTransportStep(h)
        \/ UpdateCustomsStatusStep(h)
        \/ StartLocalDeliveryStep(h)
        \/ AdvanceStateUpdated(h)
        \/ MarkDeliveredStateUpdated(h)
        \/ MarkDeliveredNotified(h)
        \/ OrderResolutionNotified(h)
        \/ WarehouseResolutionNotified(h)
        \/ TransportResolutionNotified(h)
        \/ CustomsResolutionNotified(h)
        \/ DeliveryResolutionNotified(h)
        \/ PaymentResolutionNotified(h)
        \/ DelayResolutionNotified(h)

Next == RunStep \/ RunResumed \/ Signal \/ HandlerStep

Spec == Init /\ [][Next]_vars

\* activities complete, timers fire and released coroutines are scheduled;
\* nothing obliges a signal to be sent
FairSpec == Spec /\ WF_vars(RunStep) /\ WF_vars(RunResumed) /\ WF_vars(HandlerStep)

\* the run alone: no signal is ever sent
RunSpec == Init /\ [][RunStep]_vars /\ WF_vars(RunStep)

\* the run alone, queried at any moment after its start
ProbeSpec == Init /\ [][RunStep \/ Probe]_vars /\ WF_vars(RunStep)

----
\* vocabulary of the properties

Terminal == {"DELIVERED", "CANCELED", "CRITICAL_HALT"}

Categories == {"order", "payment", "warehouse", "transport", "customs", "delivery"}

DeadlineCategories == {"warehouse", "transport", "customs"}

WaitPcs == {WaitPc(c) : c \in Categories}

\* the pipeline order of the lifecycle states
StageAfter(s) ==
    CASE s = "ORDER_RECEIVED" -> "PAYMENT_RECEIVED"
      [] s = "PAYMENT_RECEIVED" -> "WAREHOUSE_ALLOCATION"
      [] s = "WAREHOUSE_ALLOCATION" -> "PACKAGED"
      [] s = "PACKAGED" -> "TRANSPORT_STARTED"
      [] s = "TRANSPORT_STARTED" -> "CUSTOMS_CLEARANCE"
      [] s = "CUSTOMS_CLEARANCE" -> "LOCAL_DELIVERY"
      [] s = "LOCAL_DELIVERY" -> "DELIVERED"
      [] OTHER -> "none"

\* the awaited check of a category's stage in run, and where run is once that
\* check has failed
CheckPc(category) ==
    CASE category = "order" -> "validate_order"
      [] category = "payment" -> "verify_payment"
      [] category = "warehouse" -> "check_warehouse"
      [] category = "transport" -> "check_transport"
      [] category = "customs" -> "check_customs"
      [] category = "delivery" -> "check_delivery"

FailedPc(category) ==
    CASE category = "order" -> "notify_order"
      [] category = "payment" -> "notify_payment"
      [] category = "warehouse" -> "notify_warehouse"
      [] category = "transport" -> "estimate_transport_delayed"
      [] category = "customs" -> "estimate_customs_delayed"
      [] category = "delivery" -> "estimate_delivery_delayed"

\* the scenario in which a category's check fails
FailingScenario(category) ==
    CASE category = "order" -> "price-mismatch"
      [] category = "payment" -> "payment-failure"
      [] category = "warehouse" -> "warehouse-stock"
      [] category = "transport" -> "transport-delay"
      [] category = "customs" -> "customs-issue"
      [] category = "delivery" -> "delivery-delay"

\* the reasons of the ErrorDetails a category publishes
ErrorReasons(category) ==
    CASE category = "order" -> {"PRICE_MISMATCH"}
      [] category = "payment" -> PaymentErrorReason
      [] category = "warehouse" -> {"INSUFFICIENT_STOCK"}
      [] category = "transport" -> {"WEATHER_DELAY"}
      [] category = "customs" -> {"DOCUMENTATION_MISSING"}
      [] category = "delivery" -> {"RECIPIENT_UNAVAILABLE"}

\* the advance-command handler that waits on a category's event
WaitingHandler(category) ==
    CASE category = "warehouse" -> "allocate_warehouse"
      [] category = "transport" -> "start_transport"
      [] category = "customs" -> "update_customs_status"
      [] category = "delivery" -> "start_local_delivery"
      [] OTHER -> "none"

\* a coroutine is blocked awaiting a decision of the category
Suspended(category) ==
    \/ runpc = WaitPc(category)
    \/ \E h \in handlers : h.name = WaitingHandler(category) /\ h.pc = "wait"

\* the name of the handler of a category's decision signal
ResolutionHandler(category) ==
    CASE category = "order" -> "handle_order_resolution"
      [] category = "payment" -> "handle_payment_resolution"
      [] category = "warehouse" -> "handle_warehouse_resolution"
      [] category = "transport" -> "handle_transport_resolution"
      [] category = "customs" -> "handle_customs_resolution"
      [] category = "delivery" -> "handle_delivery_resolution"

\* the signal of a category's decision with a given choice
ResolveWith(category, choice) ==
    CASE category = "order" -> handle_order_resolution(choice)
      [] category = "payment" -> handle_payment_resolution(choice)
      [] category = "warehouse" -> handle_warehouse_resolution(choice)
      [] category = "transport" -> handle_transport_resolution(choice)
      [] category = "customs" -> handle_customs_resolution(choice)
      [] category = "delivery" -> handle_delivery_resolution(choice)

\* the signal of a category's decision, with any choice
Resolve(category) ==
    \E choice \in Choices(ResolutionHandler(category)) :
        ResolveWith(category, choice)

\* a choice of another category: neither offered with the category's error
\* nor named by its handler
ForeignChoice(category) ==
    CASE category = "warehouse" -> "ACCEPT_DELAY"
      [] category = "customs" -> "RETURN_SHIPMENT"
      [] OTHER -> "WAIT_FOR_STOCK"

----
\* C1: with every check succeeding and no command sent, run moves the state
\* through the eight pipeline states one stage at a time, is never suspended,
\* and in the end has returned with state DELIVERED.
C1_HappyPath ==
    /\ [][scenario = "none" => (state' = state \/ state' = StageAfter(state))]_vars
    /\ [](scenario = "none" => runpc \notin WaitPcs)
    /\ (scenario = "none" => <>(runpc = "done" /\ state = "DELIVERED"))

C1_Witness ==
    scenario = "none" /\ signals = 0 /\ runpc = "done" /\ state = "DELIVERED"

\* C2: in a terminal state no command changes a field of the shipment record.
C2_TerminalAbsorbing ==
    [][(state \in Terminal /\ signals' # signals) => UNCHANGED record]_vars

\* C3: an advance-command received in a state other than its required
\* predecessor raises an error and leaves the shipment record unchanged.
C3_AdvanceRejected ==
    [][/\ (allocate_warehouse /\ state # "PAYMENT_RECEIVED")
            => (rejected' /\ UNCHANGED record)
       /\ (start_transport /\ state # "PACKAGED")
            => (rejected' /\ UNCHANGED record)
       /\ (update_customs_status /\ state # "TRANSPORT_STARTED")
            => (rejected' /\ UNCHANGED record)
       /\ (start_local_delivery /\ state # "CUSTOMS_CLEARANCE")
            => (rejected' /\ UNCHANGED record)
       /\ (mark_delivered /\ state # "LOCAL_DELIVERY")
            => (rejected' /\ UNCHANGED record)]_vars

\* an advance-command was rejected (cancel_shipment is accepted in this state)
C3_Witness ==
    rejected /\ state = "WAREHOUSE_ALLOCATION" /\ signals > 0

\* C4: after a cancel received while run was suspended, the state never
\* becomes CRITICAL_HALT.
C4_CancelReleases ==
    cancel_at \in WaitPcs => state # "CRITICAL_HALT"

\* C5: once cancel has been accepted the state is CANCELED from then on.
C5_CancelSticks ==
    cancel_at # "none" => state = "CANCELED"

\* C6: a decision for a category that has no open suspension and no pending
\* error changes neither the state, the payment fields, current_error nor the
\* summary.
C6_NoSuspensionNoEffect ==
    [][\A c \in Categories :
          (/\ Resolve(c)
           /\ ~Suspended(c)
           /\ current_error.reason \notin ErrorReasons(c))
          => UNCHANGED <<state, payment_status, payment_retries, current_error,
                         summary>>]_vars

\* C7: decisions are not queued: when the check of a stage fails, the wait run
\* is about to open has not been released by a decision that came earlier.
C7_NotQueued ==
    [][\A c \in Categories :
          (runpc = CheckPc(c) /\ runpc' = FailedPc(c)) => c \notin events]_vars

\* C8: a choice outside the choice set of the category run is suspended on is
\* rejected with an error, records no decision, leaves current_error set and
\* leaves the suspension open.
C8_InvalidChoiceRejected ==
    [][\A c \in Categories :
          (runpc = WaitPc(c) /\ ResolveWith(c, ForeignChoice(c)))
          => (rejected' /\ UNCHANGED <<summary, current_error, events>>)]_vars

\* C9: when run has returned after the check of a deadline-raced stage failed
\* and no decision arrived within the window, the final state is CRITICAL_HALT.
C9_DeadlineHalts ==
    \A c \in DeadlineCategories :
        (runpc = "done" /\ scenario = FailingScenario(c) /\ c \notin window_decisions)
        => state = "CRITICAL_HALT"

\* C10: in CRITICAL_HALT the summary records the production stop and the loss
\* of the declared remaining capacity at 100 per minute.
C10_HaltLedger ==
    state = "CRITICAL_HALT"
    => /\ summary.production_line_stopped
       /\ summary.production_loss_cost = backup_capacity * 60 * 100

\* where run is, in a category's timeout branch, while it awaits the
\* notification of the halt
HaltPc(category) ==
    CASE category = "warehouse" -> "notify_halt_warehouse"
      [] category = "transport" -> "notify_halt_transport"
      [] category = "customs" -> "notify_halt_customs"
      [] OTHER -> "none"

\* C11: when a decision of a deadline-raced category, with a choice of that
\* category, was received after the check failed and before the deadline
\* passed, the state is not CRITICAL_HALT.
C11_DecisionBeatsDeadline ==
    \A c \in DeadlineCategories :
        c \in window_decisions => state # "CRITICAL_HALT"

\* C12: once the timeout has resolved a deadline-raced suspension, a decision
\* of that category changes neither the state nor the summary.
C12_LoserDiscarded ==
    [][\A c \in DeadlineCategories :
          (runpc = HaltPc(c) /\ Resolve(c)) => UNCHANGED <<state, summary>>]_vars

\* the third attempt of the payment check has failed, for this reason
ThirdFailure(reason) ==
    payment_retries = MaxPaymentAttempts /\ payment_error = reason

\* C13: when the third payment attempt fails with INSUFFICIENT_FUNDS, no
\* payment suspension is opened (the status is not WAITING_FOR_RESOLUTION, no
\* error is published, run does not wait) and run returns with state CANCELED
\* and payment_retries = 3.
C13_AutoCancel ==
    /\ [](ThirdFailure("INSUFFICIENT_FUNDS")
            => /\ payment_status # "WAITING_FOR_RESOLUTION"
               /\ current_error = NoError
               /\ runpc \notin {"notify_payment", "wait_payment"})
    /\ (ThirdFailure("INSUFFICIENT_FUNDS")
            ~> (runpc = "done" /\ state = "CANCELED" /\ payment_retries = 3))

C13_Witness ==
    /\ ThirdFailure("INSUFFICIENT_FUNDS")
    /\ runpc = "done" /\ state = "CANCELED"

\* C14: when the third payment attempt fails with another reason, the status
\* is WAITING_FOR_RESOLUTION, current_error is the payment error with the four
\* options, the state is still ORDER_RECEIVED, and run waits for the payment
\* decision for as long as none comes.
C14_PaymentEscalation ==
    /\ [](ThirdFailure("NETWORK_ERROR")
            => /\ payment_status = "WAITING_FOR_RESOLUTION"
               /\ current_error.reason = "NETWORK_ERROR"
               /\ current_error.resolution_options =
                      <<"Send to tech support", "Retry payment",
                        "Resume when system is ready", "Cancel order">>
               /\ state = "ORDER_RECEIVED"
               /\ runpc \in {"notify_payment", "wait_payment"})
    /\ (ThirdFailure("NETWORK_ERROR") ~> [](runpc = "wait_payment"))

C14_Witness ==
    /\ ThirdFailure("NETWORK_ERROR")
    /\ runpc = "wait_payment" /\ payment_status = "WAITING_FOR_RESOLUTION"

\* C15: applied while run waits on the payment decision, RESUME_WHEN_READY and
\* SEND_TO_TECH_SUPPORT set payment_status SUCCESS and state PAYMENT_RECEIVED,
\* clear current_error and release the wait; the escalation adds cost 50 and
\* its 3 hours, the resume adds nothing; run then goes on to warehouse
\* allocation without another payment check.
C15_EscalateAndResume ==
    [][/\ (runpc = "wait_payment" /\ handle_payment_resolution("RESUME_WHEN_READY"))
            => /\ payment_status' = "SUCCESS"
               /\ state' = "PAYMENT_RECEIVED"
               /\ current_error' = NoError
               /\ "payment" \in events'
               /\ summary'.total_cost = summary.total_cost
               /\ summary'.time_saved_hours = summary.time_saved_hours
       /\ (runpc = "wait_payment" /\ handle_payment_resolution("SEND_TO_TECH_SUPPORT"))
            => /\ summary'.total_cost = summary.total_cost + 50
               /\ summary'.time_saved_hours = summary.time_saved_hours + Hours(-3)
               /\ \E h \in handlers' \ handlers : h.choice = "SEND_TO_TECH_SUPPORT"
       /\ \A h \in handlers :
            (h.choice = "SEND_TO_TECH_SUPPORT" /\ PaymentResolutionNotified(h))
            => /\ payment_status' = "SUCCESS"
               /\ state' = "PAYMENT_RECEIVED"
               /\ current_error' = NoError
               /\ "payment" \in events'
       /\ (/\ runpc = "wait_payment" /\ runpc' # runpc
           /\ payment_status = "SUCCESS" /\ state = "PAYMENT_RECEIVED")
            => (runpc' = "update_state_warehouse" /\ state' = "WAREHOUSE_ALLOCATION")
      ]_vars

\* the escalation was applied to the open payment suspension and run went on
C15_Witness ==
    /\ scenario = "payment-failure" /\ "payment" \in window_decisions
    /\ summary.decisions_made = <<"Send to tech support">>
    /\ summary.total_cost = 50
    /\ payment_status = "SUCCESS" /\ payment_retries = MaxPaymentAttempts
    /\ state = "WAREHOUSE_ALLOCATION"

\* C16: when the only decision so far is a retry applied to the payment
\* suspension and the payment attempts have failed again, run is suspended on
\* the payment decision again and the state is still ORDER_RECEIVED.
C16_PaymentReopens ==
    (/\ signals = 1
     /\ "payment" \in window_decisions
     /\ summary.decisions_made = <<"Retry payment">>
     /\ payment_status = "WAITING_FOR_RESOLUTION")
    => (runpc \in {"notify_payment", "wait_payment"} /\ state = "ORDER_RECEIVED")

\* C17: CANCEL_ORDER applied while run waits on the payment decision releases
\* that wait.
C17_PaymentCancelReleases ==
    [][(runpc = "wait_payment" /\ handle_payment_resolution("CANCEL_ORDER"))
       => (state' = "CANCELED" /\ "payment" \in events')]_vars

DecisionCost(decision) ==
    CASE decision = "Allocate from different warehouse" -> 150
      [] decision = "Reroute via alternative supplier" -> 500
      [] decision = "Pay expedited processing fee" -> 200
      [] decision = "Reroute from alternative supplier" -> 800
      [] decision = "Return to depot for pickup" -> 25
      [] decision = "Send to tech support" -> 50
      [] OTHER -> 0

DecisionTime(decision) ==
    CASE decision = "Allocate from different warehouse" -> Hours(-24)
      [] decision = "Wait for stock replenishment" -> Hours(-96)
      [] decision = "Cancel order" -> 0
      [] decision = "Wait out bad weather" -> Hours(-72)
      [] decision = "Reroute via alternative supplier" -> Hours(-24)
      [] decision = "Notice customers with refund option" -> Hours(-72)
      [] decision = "Provide additional documentation" -> Hours(-24)
      [] decision = "Pay expedited processing fee" -> Hours(-4)
      [] decision = "Accept customs delay" -> Hours(-72)
      [] decision = "Reroute from alternative supplier" -> Hours(-12)
      [] decision = "Return to depot for pickup" -> 0
      [] decision = "Send to tech support" -> Hours(-3)
      [] decision = "Retry payment" -> -8
      [] decision = "Resume when system is ready" -> 0
      [] OTHER -> Hours(-24)

\* the sums _track_decision accumulates, over a sequence of decisions
RECURSIVE CostOf(_)
CostOf(decisions) ==
    IF decisions = <<>>
    THEN 0
    ELSE DecisionCost(Head(decisions)) + CostOf(Tail(decisions))

RECURSIVE TimeOf(_)
TimeOf(decisions) ==
    IF decisions = <<>>
    THEN 0
    ELSE DecisionTime(Head(decisions)) + TimeOf(Tail(decisions))

\* C19: total_cost is the sum of the costs of the decisions in decisions_made,
\* time_saved_hours the sum of their time impacts, and decisions_made changes
\* only by an append.
C19_LedgerAdditive ==
    /\ [](/\ summary.total_cost = CostOf(summary.decisions_made)
          /\ summary.time_saved_hours = TimeOf(summary.decisions_made))
    /\ [][\/ summary'.decisions_made = summary.decisions_made
          \/ /\ Len(summary'.decisions_made) = Len(summary.decisions_made) + 1
             /\ SubSeq(summary'.decisions_made, 1, Len(summary.decisions_made))
                    = summary.decisions_made]_vars

\* two decisions, one of them with a cost, are in the ledger
C19_Witness ==
    Len(summary.decisions_made) = 2 /\ summary.total_cost > 0

\* the fields of the summary that the decisions and the timeouts write
Ledger ==
    <<summary.total_cost, summary.time_saved_hours, summary.decisions_made,
      summary.avoided_production_stop, summary.production_line_stopped,
      summary.production_stop_duration_hours, summary.production_loss_cost>>

\* C20: in a terminal state no step changes the ledger or the production-stop
\* fields of the summary.
C20_SummaryFrozen ==
    [][(state \in Terminal) => UNCHANGED Ledger]_vars

\* C21: in a terminal state summary.final_status is the name of that state.
C21_FinalStatusMirrors ==
    state \in Terminal => summary.final_status = state

\* C22: in a terminal state no suspension is open, so current_error is null.
C22_ErrorOnlyWhileSuspended ==
    state \in Terminal => current_error = NoError

\* C23: a query changes no field of the workflow, is answered while run is
\* suspended, and asked again with no step of the workflow in between gives
\* the same result.
C23_ProbesReadOnly ==
    /\ [][Probe => UNCHANGED <<record, events, pause_requested, workflow_paused,
                               runpc, handlers>>]_vars
    /\ [](\A q \in Queries :
             (runpc \in WaitPcs /\ probes < MaxProbes) => ENABLED Query(q))
    /\ [][\A q \in Queries :
             (Query(q) /\ probes >= 1 /\ answer.query = q) => answer' = answer]_vars

\* get_current_error was asked twice in a row while run was suspended
C23_Witness ==
    /\ runpc \in WaitPcs /\ probes = 2
    /\ answer.query = "get_current_error"
    /\ answer.result = current_error /\ current_error # NoError

\* C24: pause on a paused workflow and resume on one that is not paused change
\* nothing; is_paused is true after a pause, false after a resume, and changes
\* by no other step; neither changes the shipment record.
C24_PauseResumeIdempotent ==
    [][/\ (pause_workflow /\ is_paused)
            => UNCHANGED <<record, events, handlers, pause_requested, workflow_paused>>
       /\ (resume_workflow /\ ~is_paused)
            => UNCHANGED <<record, events, handlers, pause_requested, workflow_paused>>
       /\ pause_workflow => (is_paused' /\ UNCHANGED record)
       /\ resume_workflow => (~is_paused' /\ UNCHANGED record)
       /\ (is_paused' # is_paused) => (pause_workflow \/ resume_workflow)]_vars

\* paused after two signals, neither of them rejected
C24_Witness ==
    is_paused /\ ~workflow_paused /\ signals = 2 /\ ~rejected /\ handlers = {}

\* C25: while is_paused is true, no step of run moves the state to the next
\* stage.
C25_PauseGates ==
    [][(is_paused /\ runpc' # runpc) => state' # StageAfter(state)]_vars


\* the ledger after one decision of the given cost and time
Grown(cost, hours) ==
    /\ summary'.total_cost = summary.total_cost + cost
    /\ summary'.time_saved_hours = summary.time_saved_hours + hours
    /\ Len(summary'.decisions_made) = Len(summary.decisions_made) + 1

\* C26: a warehouse suspension resolved by a resume choice before the deadline
\* grows the ledger by exactly that choice's cost and time (wait-for-stock 0
\* and -96 h, allocate-different 150 and -24 h), the handler clears
\* current_error and releases the wait, and the run, released in the
\* warehouse stage, advances to PACKAGED; with the wait-for-stock decision
\* alone total_cost is 0 and time_saved_hours is -96
C26_WarehouseResume ==
    /\ [][
           /\ (runpc = "wait_warehouse" /\ handle_warehouse_resolution("WAIT_FOR_STOCK"))
                => (Grown(0, Hours(-96)) /\ ~rejected')
           /\ (runpc = "wait_warehouse" /\ handle_warehouse_resolution("ALLOCATE_DIFFERENT"))
                => (Grown(150, Hours(-24)) /\ ~rejected')
           /\ (\A h \in handlers : WarehouseResolutionNotified(h)
                => (/\ current_error' = NoError
                    /\ "warehouse" \in events'
                    /\ summary' = summary))
           /\ (/\ runpc = "wait_warehouse" /\ runpc' # runpc
               /\ "warehouse" \in events /\ state = "WAREHOUSE_ALLOCATION")
                => state' = "PACKAGED"]_vars
    /\ []((/\ signals = 1
            /\ "warehouse" \in window_decisions
            /\ summary.decisions_made = <<"Wait for stock replenishment">>
            /\ state = "PACKAGED")
            => (/\ summary.total_cost = 0
                /\ summary.time_saved_hours = Hours(-96)
                /\ current_error = NoError))

C26_Witness ==
    /\ signals = 1
    /\ "warehouse" \in window_decisions
    /\ summary.decisions_made = <<"Wait for stock replenishment">>
    /\ state = "PACKAGED"
    /\ summary.total_cost = 0
    /\ summary.time_saved_hours = Hours(-96)
    /\ current_error = NoError


\* the state an advance-command handler assigns last when its check succeeds
AdvanceResult(name) ==
    CASE name = "allocate_warehouse" -> "PACKAGED"
      [] name = "start_transport" -> "TRANSPORT_STARTED"
      [] name = "update_customs_status" -> "CUSTOMS_CLEARANCE"
      [] name = "start_local_delivery" -> "LOCAL_DELIVERY"
      [] name = "mark_delivered" -> "DELIVERED"

\* C27: when an advance-command was accepted in its required predecessor
\* state and its stage check succeeds, the state at the step that completes
\* the command is PACKAGED after allocate_warehouse, TRANSPORT_STARTED after
\* start_transport, CUSTOMS_CLEARANCE after update_customs_status,
\* LOCAL_DELIVERY after start_local_delivery and DELIVERED after
\* mark_delivered
C27_AdvanceCompletes ==
    [][\A h \in handlers :
          (/\ AdvanceStateUpdated(h) \/ MarkDeliveredNotified(h)
           /\ h.name = "allocate_warehouse" => check_warehouse_allocation
           /\ h.name = "start_transport" => check_transport_status
           /\ h.name = "update_customs_status" => check_customs_status
           /\ h.name = "start_local_delivery" => check_delivery_status)
          => state' = AdvanceResult(h.name)]_vars


InProgress(category) ==
    CASE category \in {"order", "payment"} -> "ORDER_RECEIVED"
      [] category = "warehouse" -> "WAREHOUSE_ALLOCATION"
      [] category = "transport" -> "TRANSPORT_STARTED"
      [] category = "customs" -> "CUSTOMS_CLEARANCE"
      [] category = "delivery" -> "LOCAL_DELIVERY"

\* C29: while run is suspended awaiting a decision of a category, with the
\* state the stage's in-progress state, a step that is neither a decision
\* signal nor cancel_shipment, with no decision handler in flight, and that
\* leaves run suspended (no release, no deadline) does not change the state
C29_SuspendedStateHolds ==
    [][\A c \in Categories :
          (/\ runpc = WaitPc(c) /\ runpc' = WaitPc(c)
           /\ state = InProgress(c)
           /\ ~cancel_shipment
           /\ \A d \in Categories :
                 /\ ~Resolve(d)
                 /\ \A h \in handlers : h.name # ResolutionHandler(d))
          => state' = state]_vars


\* C30: the order and delivery suspensions have no deadline: while no
\* decision and no cancel arrives, run stays suspended with the state
\* ORDER_RECEIVED (respectively LOCAL_DELIVERY), and the state is never
\* CRITICAL_HALT in these scenarios; an accept-type order decision releases
\* the wait and run proceeds to the payment check
C30_UnboundedWaits ==
    /\ [][
           /\ \A c \in {"order", "delivery"} :
                 (/\ runpc = WaitPc(c)
                  /\ c \notin events
                  /\ state = InProgress(c)
                  /\ ~cancel_shipment
                  /\ \A d \in Categories :
                        /\ ~Resolve(d)
                        /\ \A h \in handlers : h.name # ResolutionHandler(d))
                 => (runpc' = WaitPc(c) /\ state' = InProgress(c))
           /\ (\A h \in handlers : OrderResolutionNotified(h)
                 => (current_error' = NoError /\ "order" \in events'))
           /\ (/\ runpc = "wait_order" /\ runpc' # runpc
               /\ state = "ORDER_RECEIVED" /\ payment_status = "PENDING")
                 => runpc' = "verify_payment"]_vars
    /\ [](scenario \in {"price-mismatch", "delivery-delay"} => state # "CRITICAL_HALT")


\* C31: at most one coroutine of the shipment (run or an advance-command
\* handler) is blocked awaiting a decision whose event is not yet set
C31_OneSuspension ==
    Cardinality({c \in Categories : runpc = WaitPc(c) /\ c \notin events})
    + Cardinality({h \in handlers :
                     /\ h.pc = "wait"
                     /\ \E c \in Categories :
                           h.name = WaitingHandler(c) /\ c \notin events})
    <= 1


\* C32: while run is suspended on a warehouse, transport, customs or
\* delivery decision, current_error holds the stage's ErrorDetails and
\* delivery_update is the delayed estimate: status DELAYED, delay_reason the
\* error's reason, new_eta set
C32_DelayedWhileSuspended ==
    \A c \in {"warehouse", "transport", "customs", "delivery"} :
        runpc = WaitPc(c)
        => /\ current_error.reason \in ErrorReasons(c)
           /\ delivery_update.status = "DELAYED"
           /\ delivery_update.delay_reason = current_error.reason
           /\ delivery_update.new_eta # "None"


\* C33: every resume-type choice of a category applied while run is
\* suspended on that category appends exactly one entry to decisions_made,
\* and the release of the suspension by a resume leaves current_error cleared
C33_ResumeRecorded ==
    [][\A c \in Categories :
          /\ \A choice \in ChoiceSet(c) \ {"CANCEL_ORDER"} :
                (runpc = WaitPc(c) /\ c \notin events /\ ResolveWith(c, choice))
                => Len(summary'.decisions_made) = Len(summary.decisions_made) + 1
          /\ (/\ runpc = WaitPc(c) /\ c \notin events /\ c \in events'
              /\ state' # "CANCELED")
                => current_error' = NoError]_vars


\* C34: avoided_production_stop is true exactly when a reroute decision of
\* the transport or customs category is in decisions_made; it changes only
\* at the REROUTE_SHIPMENT signal of one of these two handlers, and only to
\* true
C34_AvoidedIffReroute ==
    /\ [](summary.avoided_production_stop
           <=> \E i \in 1..Len(summary.decisions_made) :
                  summary.decisions_made[i] \in {"Reroute via alternative supplier",
                                                 "Reroute from alternative supplier"})
    /\ [][summary'.avoided_production_stop # summary.avoided_production_stop
           => /\ summary'.avoided_production_stop
              /\ \/ handle_transport_resolution("REROUTE_SHIPMENT")
                 \/ handle_customs_resolution("REROUTE_SHIPMENT")]_vars

C34_Witness ==
    /\ summary.avoided_production_stop
    /\ "customs" \in window_decisions
    /\ summary.decisions_made = <<"Reroute from alternative supplier">>
    /\ summary.total_cost = 800


\* C35: in no state between two steps (where a query or a timer can run) has
\* a handler of a category's decision added its decision to the ledger while
\* run is still suspended on the category, its event unset and current_error
\* still set
C35_NoPartialDecision ==
    \A c \in Categories \ {"order"} :
        \A h \in handlers :
            (h.name = ResolutionHandler(c) /\ h.pc = "notify")
            => ~(/\ Len(summary.decisions_made) >= 1
                 /\ runpc = WaitPc(c)
                 /\ c \notin events
                 /\ current_error # NoError)


\* C36: payment_retries stays within 0..3 under every interleaving of the
\* payment loop with the signals; a payment check in flight was invoked with
\* an attempt index in 0..2; and no more than three payment checks are
\* started without a RETRY_PAYMENT decision in between
C36_PaymentBounded ==
    /\ payment_retries \in 0..MaxPaymentAttempts
    /\ runpc = "verify_payment" => retry_count \in 0..(MaxPaymentAttempts - 1)
    /\ checks <= MaxPaymentAttempts

C36_Witness ==
    /\ "payment" \in window_decisions
    /\ summary.decisions_made = <<"Retry payment">>
    /\ checks = MaxPaymentAttempts
    /\ payment_retries = MaxPaymentAttempts


\* C37: whenever run or an advance-command handler is blocked awaiting a
\* decision of a category whose event is not set, current_error holds an
\* ErrorDetails of that category's stage
C37_ErrorWhileBlocked ==
    \A c \in Categories :
        (Suspended(c) /\ c \notin events) => current_error.reason \in ErrorReasons(c)


\* the position of a lifecycle state in the pipeline; 0 for the alternate
\* terminals
Rank(s) ==
    CASE s = "ORDER_RECEIVED" -> 1
      [] s = "PAYMENT_RECEIVED" -> 2
      [] s = "WAREHOUSE_ALLOCATION" -> 3
      [] s = "PACKAGED" -> 4
      [] s = "TRANSPORT_STARTED" -> 5
      [] s = "CUSTOMS_CLEARANCE" -> 6
      [] s = "LOCAL_DELIVERY" -> 7
      [] s = "DELIVERED" -> 8
      [] OTHER -> 0

\* C38: no step moves the state from a pipeline stage to an earlier pipeline
\* stage
C38_StateMonotone ==
    [][(Rank(state) > 0 /\ Rank(state') > 0) => Rank(state') >= Rank(state)]_vars


\* C39: a non-payment stage check is executed once per shipment: while run
\* executes the check of a stage, no advance-command handler of that stage,
\* which executes the same check when it is accepted, is or was in flight;
\* and the payment check is not started when payment_status is SUCCESS
C39_ChecksOnce ==
    /\ [](\A c \in {"warehouse", "transport", "customs", "delivery"} :
             runpc = CheckPc(c) => \A h \in handlers : h.name # WaitingHandler(c))
    /\ [][(runpc # "verify_payment" /\ runpc' = "verify_payment")
           => payment_status # "SUCCESS"]_vars

====
